---------------------------- MODULE Spec2Model ----------------------------
(***************************************************************************)
(* Vertical (9:16) video cropper: the batch tool                           *)
(* (vertical_video_cropper.py, class VerticalVideoCropper) and the GUI     *)
(* worker thread (gui_app.py, class CropWorker).  One job is modelled from *)
(* the call of crop_to_vertical() / CropWorker.run() to its terminal       *)
(* report, with the per-frame crop decision of the face, motion and centre *)
(* strategies, per-frame failure containment, and CropWorker.stop()        *)
(* interleaved with the worker.                                            *)
(***************************************************************************)
EXTENDS Integers, Sequences, FiniteSets, TLC

(***************************************************************************)
(* Bounds of the model.                                                    *)
(***************************************************************************)
MaxFrames == 4
\* frames of the long sources on which the progress cadence is followed
LongGuiFrames == 21
LongBatchFrames == 201
\* frames of a source on which every frame shows the same face
HoldFrames == 60
\* frames of the sources of the jobs checked for termination
MaxFairFrames == 3
\* workers created in one session of the main window
MaxWorkers == 3

(***************************************************************************)
(* Program constants.                                                      *)
(***************************************************************************)
\* default_config['face_detection']['right_offset']
RightOffset == 60
\* progress cadence of the GUI worker (frame_count % 10) and of the batch
\* tool (frame_count % 100)
GuiProgressEvery == 10
BatchProgressEvery == 100
\* default_config['motion_tracking']['update_interval'] = 1.0 s, in tenths
UpdateIntervalTenths == 10

Impls == {"batch", "gui"}
\* "other" stands for any mode string that is not face / motion / center
Modes == {"face", "motion", "center", "other"}

\* (original_width, original_height) of the sources considered
Geometries == {<<1920, 1080>>, <<1600, 900>>, <<500, 1000>>, <<270, 480>>}

\* stream rates (frames per second, in hundredths) of the sources considered
FpsHundredths == {150, 275}

\* motion_tracking.scale_factor as a fraction <<num, den>>: the default
\* 0.67, 1.0, and 0 (accepted by the command line, --scale-factor 0)
ScaleFactors == {<<67, 100>>, <<1, 1>>, <<0, 1>>}

Min(a, b) == IF a <= b THEN a ELSE b
Max(a, b) == IF a >= b THEN a ELSE b
Abs(a) == IF a >= 0 THEN a ELSE -a

Pow(b, k) == b ^ k

\* 2^k mod m for 0 <= k <= 90 and 0 < m <= 2^15: the exponent is split in
\* three so that no intermediate value leaves 32 bits
Pow2Mod(k, m) ==
    LET a == k \div 3
        b == (k - a) \div 2
        c == k - a - b
    IN  (((((2 ^ a) % m) * ((2 ^ b) % m)) % m) * ((2 ^ c) % m)) % m

(***************************************************************************)
(* Target geometry: vertical_height = int(original_height),                *)
(* vertical_width = int(vertical_height * 9 / 16).  The float quotient by  *)
(* 16 is exact, so int() is the floor of the rational value.               *)
(***************************************************************************)
TargetHeight(h) == h

TargetWidth_ceil(h) == (h * 9 + 15) \div 16

TargetWidth(h) == (TargetHeight(h) * 9) \div 16

\* x_start = (original_width - vertical_width) // 2
CenterX_mid(w, vw) == w \div 2

CenterX(w, vw) == (w - vw) \div 2

(***************************************************************************)
(* int(0.9 * c + (1 - 0.9) * t) in IEEE-754 binary64, for integers         *)
(* 0 <= c, t < 4096.  fl(0.9) = (9*2^53 + 2) / (10*2^53) and               *)
(* 1 - fl(0.9) = (2^53 - 2) / (10*2^53) exactly, so the two products are   *)
(* 0.9c + c*2^-53/5 and 0.1t - t*2^-53/5 before rounding.  When 9c + t is  *)
(* not a multiple of 10 the rounding errors (below 2^-40) cannot reach the *)
(* next integer and the result is the exact floor.  When it is a multiple  *)
(* of 10 the result is that integer K unless the sum of the two rounded    *)
(* products lies more than half an ulp below K, in which case the sum is   *)
(* rounded to the double just below K and int() yields K - 1.              *)
(* Errors are kept in units of 2^-56 / 10.                                 *)
(***************************************************************************)
RECURSIVE BinadeHi(_, _)
\* the binade of 0.9c: the largest e >= start with 2^e <= 0.9c
BinadeHi(e, c) == IF 10 * Pow(2, e + 2) <= 18 * c THEN BinadeHi(e + 1, c) ELSE e

RECURSIVE BinadeLo(_, _)
\* the binade of the low product: the largest e >= start with 2^e < 0.1t
BinadeLo(e, t) == IF 10 * Pow(2, e + 5) < 16 * t THEN BinadeLo(e + 1, t) ELSE e

\* fl(0.9 * c) - 0.9c
RoundErrHi(c) ==
    IF c = 0 THEN 0
    ELSE LET e  == BinadeHi(-1, c)
             r  == (9 * c * Pow2Mod(52 - e, 10)) % 10
             up == IF (r - 5) * Pow(2, e + 1) + 2 * c > 0 THEN 1 ELSE 0
         IN  (10 * up - r) * Pow(2, e + 4)

\* fl((1 - 0.9) * t) - 0.1t, round-half-to-even on ties
RoundErrLo(t) ==
    IF t = 0 THEN 0
    ELSE LET e   == BinadeLo(-4, t)
             q20 == (t * Pow2Mod(52 - e, 20)) % 20
             r   == q20 % 10
             odd == ((q20 - r) \div 10) % 2 = 1
             s   == Pow(2, e + 4)
             x   == r * s - 16 * t
             k   == IF x > -5 * s THEN 0
                    ELSE IF x = -5 * s THEN (IF odd THEN -1 ELSE 0)
                    ELSE IF x > -15 * s THEN -1
                    ELSE IF x = -15 * s THEN (IF odd THEN -1 ELSE -2)
                    ELSE -2
         IN  (10 * k - r) * s

RECURSIVE Log2(_)
Log2(k) == IF k <= 1 THEN 0 ELSE 1 + Log2(k \div 2)

\* half the distance from the integer K >= 1 to the double just below it
HalfUlpBelow(k) ==
    LET j == Log2(k)
    IN  IF k = Pow(2, j) THEN 10 * Pow(2, j + 2) ELSE 10 * Pow(2, j + 3)

\* current_x = int(smoothing_factor * current_x + (1 - smoothing_factor) * target_x)
\* (the function application fixes the values of c and t before the
\* rounding errors are computed from them)
SmoothStep(c, t) ==
    LET at[x \in {c}, y \in {t}] ==
            LET n == 9 * x + y
                k == n \div 10
            IN  IF n % 10 # 0 \/ k = 0 THEN k
                ELSE IF RoundErrHi(x) + RoundErrLo(y) < -HalfUlpBelow(k)
                THEN k - 1
                ELSE k
    IN  at[c, t]

(***************************************************************************)
(* Face strategy.  A detection result is the sequence of rectangles        *)
(* <<x, y, w, h>> in the detector's return order.                          *)
(***************************************************************************)
Area(f) == f[3] * f[4]

\* max(faces, key=lambda f: f[2] * f[3]): the first rectangle of maximal area
BestFace_last(faces) ==
    LET i == CHOOSE j \in 1..Len(faces) :
                 /\ \A m \in 1..Len(faces) : Area(faces[m]) <= Area(faces[j])
                 /\ \A m \in (j + 1)..Len(faces) : Area(faces[m]) < Area(faces[j])
    IN  faces[i]

BestFace(faces) ==
    LET i == CHOOSE j \in 1..Len(faces) :
                 /\ \A m \in 1..Len(faces) : Area(faces[m]) <= Area(faces[j])
                 /\ \A m \in 1..(j - 1) : Area(faces[m]) < Area(faces[j])
    IN  faces[i]

\* face_center_x = x + w // 2 + right_offset
FaceCenterX(f) == f[1] + f[3] \div 2 + RightOffset

\* target_x = max(0, min(face_center_x - vertical_width // 2,
\*                       original_width - vertical_width))
FaceTargetX(faces, w, vw) ==
    Max(0, Min(FaceCenterX(BestFace(faces)) - vw \div 2, w - vw))

\* the branch taken when len(faces) == 0
NoFaceX_recenter(cx, detected, w, vw) == CenterX(w, vw)

NoFaceX(cx, detected, w, vw) == IF detected THEN cx ELSE CenterX(w, vw)

\* face_detected after the frame's detection result has been applied: set
\* on a detection (batch lines 199-201, gui 144-146), never cleared
DetectedAfter_latest(detected, faces) == Len(faces) > 0

DetectedAfter(detected, faces) == detected \/ Len(faces) > 0

\* current_x after the frame's detection result has been applied
FaceNextX_left(cx, detected, faces, w, vw) ==
    IF Len(faces) > 0 THEN SmoothStep(cx, FaceTargetX(faces, w, vw))
    ELSE IF detected THEN cx ELSE 0

FaceNextX(cx, detected, faces, w, vw) ==
    IF Len(faces) > 0 THEN SmoothStep(cx, FaceTargetX(faces, w, vw))
    ELSE NoFaceX(cx, detected, w, vw)

\* the worker's copy of the face update (gui_app.py lines 138-156):
\* smoothing on a detection, otherwise the centre unless a face was seen
GuiFaceNextX_recenter(cx, detected, faces, w, vw) ==
    IF Len(faces) > 0
    THEN SmoothStep(cx, Max(0, Min(BestFace(faces)[1] + BestFace(faces)[3] \div 2
                                       + RightOffset - vw \div 2, w - vw)))
    ELSE (w - vw) \div 2

GuiFaceNextX(cx, detected, faces, w, vw) ==
    IF Len(faces) > 0
    THEN SmoothStep(cx, Max(0, Min(BestFace(faces)[1] + BestFace(faces)[3] \div 2
                                       + RightOffset - vw \div 2, w - vw)))
    ELSE IF ~detected THEN (w - vw) \div 2 ELSE cx

(***************************************************************************)
(* The slice bounds frame[:, crop_x_start:crop_x_end] of the face and      *)
(* motion strategies: crop_x_end = min(crop_x_start + width, limit), and   *)
(* crop_x_start = max(0, crop_x_end - width) when the slice is too narrow. *)
(***************************************************************************)
CropWindow(x, vw, limit) ==
    LET e == Min(x + vw, limit)
        s == IF e - x < vw THEN Max(0, e - vw) ELSE x
    IN  <<s, e>>

\* lambda frame: frame[:, x_start:x_start+vertical_width]
CenterWindow_left(w, vw) == <<0, vw>>

CenterWindow(w, vw) == <<CenterX(w, vw), CenterX(w, vw) + vw>>

(***************************************************************************)
(* Motion strategy of the batch tool.                                      *)
(***************************************************************************)
RECURSIVE QuotientShift(_, _, _)
\* the least j >= start with num * 2^j >= den
QuotientShift(num, den, j) ==
    IF num * Pow(2, j) >= den THEN j ELSE QuotientShift(num, den, j + 1)

\* int(n * (num / den)) in IEEE-754 binary64 for integers 0 < num <= den
\* < 2048 and 0 <= n < 4096.  When n*num/den is not an integer the two
\* roundings (below 2^-40) cannot reach the next integer and the result is
\* the floor.  When it is the integer v, the quotient num/den is rounded to
\* 53 bits, 2^-(52+j) * r/den below its value when it is rounded down (r the
\* remainder of num * 2^(52+j) by den); the product then lies n times that
\* below v, and is rounded to the double just below v, so that int()
\* yields v - 1, when that exceeds half the distance 2^(E-52) from v to the
\* double below it.
FloatScale(n, num, den) ==
    LET p == n * num
        v == p \div den
    IN  IF p % den # 0 \/ v = 0 THEN v
        ELSE LET j    == QuotientShift(num, den, 0)
                 r    == (num * Pow2Mod(52 + j, den)) % den
                 odd  == (num * Pow2Mod(52 + j, 2 * den)) % (2 * den) >= den
                 down == 2 * r < den \/ (2 * r = den /\ ~odd)
                 e    == Log2(v)
                 E    == IF v = Pow(2, e) THEN e - 1 ELSE e
             IN  IF r # 0 /\ down /\ 2 * n * r > den * Pow(2, j + E)
                 THEN v - 1 ELSE v

\* scaled_width, scaled_height (lines 251-260) for scale_factor = sf[1]/sf[2]:
\* scale = vertical_width / (original_width * scale_factor), and when the
\* scaled height exceeds vertical_height, scale = vertical_height /
\* original_height.  With scale_factor = 1.0 the divisor is original_width
\* itself and the products are those of FloatScale; with the default 0.67
\* the values are not integers on the geometries considered, and int() of
\* the float products is the floor of the rational value.
ScaledDims_uncorrected(w, h, vw, vh, sf) ==
    LET one == sf[1] = sf[2]
    IN  <<IF one THEN FloatScale(w, vw, w)
          ELSE (w * vw * sf[2]) \div (w * sf[1]),
          IF one THEN FloatScale(h, vw, w)
          ELSE (h * vw * sf[2]) \div (w * sf[1])>>

ScaledDims(w, h, vw, vh, sf) ==
    LET one == sf[1] = sf[2]
        sw0 == IF one THEN FloatScale(w, vw, w)
               ELSE (w * vw * sf[2]) \div (w * sf[1])
        sh0 == IF one THEN FloatScale(h, vw, w)
               ELSE (h * vw * sf[2]) \div (w * sf[1])
    IN  IF sh0 > vh THEN <<FloatScale(w, vh, h), FloatScale(h, vh, h)>>
        ELSE <<sw0, sh0>>

\* update_interval = max(1, int(fps * motion_config['update_interval']))
UpdateInterval(fps100) == Max(1, (fps100 * UpdateIntervalTenths) \div 1000)

\* target_x = max(0, min(motion_x - vertical_width // 2,
\*                       scaled_width - vertical_width))
MotionTargetX(motion_x, vw, sw) == Max(0, Min(motion_x - vw \div 2, sw - vw))

\* prev_gray after a frame at the given position: prev_gray = curr_gray at
\* the end of the interval branch (line 310), whether or not a flow was
\* estimated and motion found
PrevGrayAfter_onMotion(prev, due, found, position) ==
    IF due /\ found THEN position ELSE prev

PrevGrayAfter(prev, due, found, position) == IF due THEN position ELSE prev

\* frame_count % update_interval == 0, frame_count = cap.get(POS_FRAMES)
RefreshDue_always(position, interval) == TRUE

RefreshDue(position, interval) == position % interval = 0

(***************************************************************************)
(* Inputs: what the external capabilities return for a frame.              *)
(***************************************************************************)
\* detector results on a frame of width w
FaceChoices(w) ==
    LET a == <<0, 0, w \div 8, w \div 8>>
        b == <<w - w \div 8, 0, w \div 8, w \div 8>>
        c == <<w \div 2, 0, w \div 16, w \div 16>>
        d == <<w \div 4, 0, w \div 16, w \div 16>>
    IN  {<<>>, <<a>>, <<d, c>>, <<c, b>>}

\* NoMotion: no pixel exceeds motion_threshold; otherwise the weighted
\* centroid column motion_x of the significant-motion mask
NoMotion == -1
FlowChoices(sw) == {NoMotion, sw \div 4, sw - 1}

\* the worker's motion mode (gui_app.py lines 222-237): the flow is computed
\* and not used, the slice is the centre slice
GuiMotionWindow_follow(motion_x, w, vw) ==
    IF motion_x = NoMotion THEN CenterWindow(w, vw)
    ELSE CropWindow(MotionTargetX(motion_x, vw, w), vw, w)

GuiMotionWindow(motion_x, w, vw) == CenterWindow(w, vw)

\* where the processing of a frame raises: nowhere, inside the strategy
\* before it touches its state (colour conversion, detector, resize, flow),
\* or after the decision (slicing, normalising, writing)
Faults == {"none", "decide", "write"}

NoFrame == [faces |-> <<>>, flow |-> NoMotion, fault |-> "none"]

FrameChoices(im, md, w, sw) ==
    {[faces |-> <<>>, flow |-> NoMotion, fault |-> "decide"]} \cup
    {[faces |-> f, flow |-> m, fault |-> e] :
        f \in (IF md = "face" THEN FaceChoices(w) ELSE {<<>>}),
        m \in (IF md # "motion" THEN {NoMotion}
               ELSE IF im = "batch" THEN FlowChoices(sw) ELSE FlowChoices(w)),
        e \in {"none", "write"}}

(***************************************************************************)
(* The frame normaliser of _write_cropped_video (lines 374-392).  An array *)
(* is described by its shape, its dtype and the operations applied to its  *)
(* pixel buffer: ndim = len(shape), rows = shape[0], cols = shape[1],      *)
(* channels = shape[2] (1 for a two-dimensional array).                    *)
(***************************************************************************)
NoArray == [rows |-> 0, cols |-> 0, ndim |-> 0, channels |-> 0,
            dtype |-> "", data |-> <<>>]

Dtypes == {"uint8", "uint16", "float32"}

\* what a crop function may hand to the normaliser for an output of
\* width x height: empty, smaller, exact and larger extents, grey arrays in
\* both layouts (h, w) and (h, w, 1), colour arrays with 3 and 4 channels
CropResults(width, height) ==
    {[rows |-> r, cols |-> c, ndim |-> l[1], channels |-> l[2], dtype |-> d,
      data |-> <<>>] :
        r \in {0, 1, height, height + 8},
        c \in {0, 1, width, width + 8},
        l \in {<<2, 1>>, <<3, 1>>, <<3, 3>>, <<3, 4>>},
        d \in Dtypes}

\* cv2.resize(cropped_frame, (width, height)); the result of resizing a
\* single-channel array is two-dimensional
Resize(a, width, height) ==
    [a EXCEPT !.rows = height, !.cols = width,
              !.ndim = IF a.channels = 1 THEN 2 ELSE 3,
              !.data = Append(@, "resize")]

\* cropped_frame.astype(np.uint8)
AsUint8(a) == [a EXCEPT !.dtype = "uint8", !.data = Append(@, "astype")]

\* cv2.cvtColor(cropped_frame, cv2.COLOR_GRAY2BGR)
Gray2Bgr(a) == [a EXCEPT !.ndim = 3, !.channels = 3,
                         !.data = Append(@, "gray2bgr")]

\* cropped_frame[:, :, :3]
DropAlpha(a) == [a EXCEPT !.channels = 3, !.data = Append(@, "bgr")]

\* if shape[0] != height or shape[1] != width
NeedsResize_always(a, width, height) == TRUE

NeedsResize(a, width, height) == a.rows # height \/ a.cols # width

\* lines 375-390: the array handed to out.write(), NoArray when the frame
\* is skipped by the continue of line 377
Normalize(a, width, height) ==
    IF a.rows = 0 \/ a.cols = 0 THEN NoArray
    ELSE LET r == IF NeedsResize(a, width, height)
                  THEN Resize(a, width, height) ELSE a
             d == IF r.dtype # "uint8" THEN AsUint8(r) ELSE r
         IN  IF d.ndim = 2 THEN Gray2Bgr(d)
             ELSE IF d.channels = 4 THEN DropAlpha(d)
             ELSE d

(***************************************************************************)
(* State of one job.                                                       *)
(***************************************************************************)
VARIABLES
    impl,             \* which program runs the job: "batch" or "gui"
    mode,             \* config['mode']
    original_width,   \* CAP_PROP_FRAME_WIDTH of the source
    original_height,  \* CAP_PROP_FRAME_HEIGHT of the source
    fps,              \* CAP_PROP_FPS of the source, in hundredths
    scale_factor,     \* config['motion_tracking']['scale_factor'], <<num, den>>
    total_frames,     \* CAP_PROP_FRAME_COUNT: the number of frames of the source
    pc,               \* position of the job in crop_to_vertical() / run()
    cap,              \* source handle: "unopened", "open", "released"
    out,              \* sink handle: "none", "open", "released"
    pos,              \* CAP_PROP_POS_FRAMES: frames read from the source
    frame,            \* the frame read by cap.read() and being processed
    vertical_width,
    vertical_height,
    scaled,           \* <<scaled_width, scaled_height>> of the motion strategy
    update_interval,
    running,          \* CropWorker.running
    success,          \* value returned by the strategy
    message,          \* reason string of the last error printed / emitted
    frame_count,      \* frames written to the sink
    warnings,         \* per-frame warnings printed / emitted
    current_x,        \* face strategy
    face_detected,
    face_count,
    smoothed_x,       \* motion strategy
    prev_gray,        \* 0 for None, else the position of the frame it holds
    window,           \* <<crop_x_start, crop_x_end>> of the last slice, <<>> before
    outcome,          \* terminal report: return value / finished_signal
    hist,             \* history of the run, read by the properties only
    signals,          \* events emitted by the worker, by channel
    norm_pc,          \* position of the normaliser on cropped_frame
    cropped_frame,    \* the array returned by crop_function(frame)
    sink_frame,       \* the array handed to out.write()
    sink_again,       \* a second pass of the normaliser over sink_frame
    start_btn,        \* the main window: start_btn.isEnabled()
    stop_btn,         \* stop_btn.isEnabled()
    crop_worker,      \* self.crop_worker: 0 for None, else the worker's number
    workers           \* the CropWorker threads created so far

inputs == <<impl, mode, original_width, original_height, fps, scale_factor,
            total_frames>>
geometry == <<vertical_width, vertical_height>>
face == <<current_x, face_detected, face_count>>
motion == <<scaled, update_interval, smoothed_x, prev_gray>>
handles == <<cap, out>>
counters == <<frame_count, warnings>>
normaliser == <<norm_pc, cropped_frame, sink_frame, sink_again>>
gui == <<start_btn, stop_btn, crop_worker, workers>>
job == <<inputs, pc, handles, pos, frame, geometry, running, success, message,
         counters, face, motion, window, outcome, hist, signals, normaliser>>
vars == <<inputs, pc, handles, pos, frame, geometry, running, success, message,
          counters, face, motion, window, outcome, hist, signals, normaliser,
          gui>>

NoOutcome == [kind |-> "none", reason |-> ""]

NoHist == [failures    |-> 0,     \* frames whose processing raised
           outReleases |-> 0,     \* calls of out.release()
           stopAt      |-> -1,    \* frame_count when stop() was called
           stopPos     |-> -1,    \* pos when stop() was called
           stopPc      |-> "",    \* pc of the worker when stop() was called
           holdT       |-> -1,    \* target_x of the current run of detected frames
           holdN       |-> 0,     \* length of that run with target_x = holdT
           holdX0      |-> 0,     \* current_x before that run
           emptyRun    |-> 0,     \* consecutive no-detection frames after a face
           loopEnd     |-> ""]    \* what ended the frame loop: "cancel" (the
                                  \* while condition read self.running false),
                                  \* "count" (frame_count reached total_frames)
                                  \* or "exhausted" (cap.read() gave no frame)

\* The worker's three event channels (gui_app.py lines 24-26): the number of
\* events emitted on each before the completion event, the number of
\* progress and status events emitted after it, and the frame count carried
\* by the last progress event.  The batch tool prints; of its prints the
\* progress lines (line 396) are counted.
NoSignals == [finished |-> 0, status |-> 0, progress |-> 0, late |-> 0,
              lastProgress |-> 0]

Init ==
    /\ impl \in Impls
    /\ mode \in IF impl = "gui" THEN Modes \ {"other"} ELSE Modes
    /\ \E g \in Geometries : original_width = g[1] /\ original_height = g[2]
    /\ fps \in IF mode = "motion" /\ impl = "batch" THEN FpsHundredths ELSE {2500}
    /\ scale_factor \in IF mode = "motion" /\ impl = "batch"
                        THEN ScaleFactors ELSE {<<67, 100>>}
    /\ total_frames \in 0..MaxFrames
    /\ pc = "idle"
    /\ cap = "unopened"
    /\ out = "none"
    /\ pos = 0
    /\ frame = NoFrame
    /\ vertical_width = 0
    /\ vertical_height = 0
    /\ scaled = <<0, 0>>
    /\ update_interval = 1
    /\ running = TRUE
    /\ success = FALSE
    /\ message = ""
    /\ frame_count = 0
    /\ warnings = 0
    /\ current_x = 0
    /\ face_detected = FALSE
    /\ face_count = 0
    /\ smoothed_x = 0
    /\ prev_gray = 0
    /\ window = <<>>
    /\ outcome = NoOutcome
    /\ hist = NoHist
    /\ signals = NoSignals
    /\ norm_pc = "off"
    /\ cropped_frame = NoArray
    /\ sink_frame = NoArray
    /\ sink_again = NoArray
    /\ start_btn = TRUE
    /\ stop_btn = FALSE
    /\ crop_worker = 0
    /\ workers = <<>>

\* status_updated.emit(...) / progress_updated.emit(...)
Emit(sig, channel) ==
    IF impl # "gui" THEN sig
    ELSE IF sig.finished > 0 THEN [sig EXCEPT !.late = @ + 1]
    ELSE [sig EXCEPT ![channel] = @ + 1]

\* if frame_count % 10 == 0 (gui) / if frame_count % 100 == 0 (batch),
\* evaluated after out.write() and frame_count += 1
ProgressEvery == IF impl = "gui" THEN GuiProgressEvery ELSE BatchProgressEvery

ProgressDue_beforeCount(fc, k) == (fc - 1) % k = 0

ProgressDue(fc, k) == fc % k = 0

\* progress_updated.emit(frame_count, total_frames) / the progress print
EmitProgress(sig, fc) ==
    IF impl = "gui" /\ sig.finished > 0 THEN [sig EXCEPT !.late = @ + 1]
    ELSE [sig EXCEPT !.progress = @ + 1, !.lastProgress = fc]

\* finished_signal.emit(...)
EmitFinished_never(sig) == sig

EmitFinished(sig) ==
    IF impl = "gui" THEN [sig EXCEPT !.finished = @ + 1] ELSE sig

\* the job reports its terminal state
Report(kind, reason) ==
    /\ pc' = "done"
    /\ outcome' = [kind |-> kind, reason |-> reason]

(***************************************************************************)
(* crop_to_vertical() / CropWorker.run() up to the strategy.               *)
(***************************************************************************)
\* the job is submitted: crop_to_vertical() is called / the thread is started
StartJob ==
    /\ pc = "idle"
    /\ pc' = "open"
    /\ UNCHANGED <<signals, gui, normaliser, inputs, handles, pos, frame, geometry, running, success,
                   message, counters, face, motion, window, outcome, hist>>

\* cv2.VideoCapture(...); if not cap.isOpened(): report failure
OpenSource ==
    /\ pc = "open"
    /\ \E ok \in BOOLEAN :
          IF ok
          THEN /\ cap' = "open"
               /\ pc' = "geometry"
               /\ UNCHANGED <<outcome, message, signals>>
          ELSE /\ message' = "CannotOpenSource"
               /\ Report("Failed", "CannotOpenSource")
               /\ signals' = EmitFinished(signals)
               /\ UNCHANGED cap
    /\ UNCHANGED <<gui, normaliser, inputs, out, pos, frame, geometry, running, success,
                   counters, face, motion, window, hist>>

\* if original_width < vertical_width: the source is too narrow
TooNarrow_height(w, h, vw) == h < vw

TooNarrow(w, h, vw) == w < vw

\* output size, and the check of the source width; on failure the report
\* and cap.release() follow each other directly (the worker emits first)
ComputeGeometry ==
    /\ pc = "geometry"
    /\ vertical_height' = TargetHeight(original_height)
    /\ vertical_width' = TargetWidth(original_height)
    /\ IF TooNarrow(original_width, original_height, vertical_width')
       THEN /\ message' = "IncompatibleGeometry"
            /\ Report("Failed", "IncompatibleGeometry")
            /\ signals' = EmitFinished(Emit(Emit(signals, "status"), "status"))
            /\ cap' = "released"
       ELSE /\ pc' = "select"
            /\ signals' = Emit(Emit(signals, "status"), "status")
            /\ UNCHANGED <<cap, outcome, message>>
    /\ UNCHANGED <<gui, normaliser, inputs, out, pos, frame, running, success, counters, face,
                   motion, window, hist>>

\* batch: _get_crop_strategy(mode), None for an unknown mode;
\* gui: if / elif / else, any other mode is the centre crop
SelectStrategy ==
    /\ pc = "select"
    /\ IF impl = "batch" /\ mode \notin {"face", "motion", "center"}
       THEN /\ message' = "UnsupportedMode"
            /\ Report("Failed", "UnsupportedMode")
            /\ cap' = "released"
       ELSE /\ pc' = "setup"
            /\ UNCHANGED <<cap, outcome, message>>
    /\ UNCHANGED <<signals, gui, normaliser, inputs, out, pos, frame, geometry, running, success,
                   counters, face, motion, window, hist>>

\* the strategy function up to the sink: the batch strategies initialise
\* their tracker state here (lines 172-176, 250-273, 341); the worker's
\* strategies only rewind the source before they open the sink.  In the
\* batch motion strategy scale_factor = 0 makes line 252 divide by zero; the
\* exception is caught by crop_to_vertical (lines 149-151), which returns
\* False without releasing the source.
SetupStrategy ==
    /\ pc = "setup"
    /\ IF impl = "batch" /\ mode = "motion" /\ scale_factor[1] = 0
       THEN /\ message' = "Exception"
            /\ Report("Failed", "Exception")
            /\ UNCHANGED <<face, motion, signals>>
       ELSE /\ pc' = "sink"
            /\ signals' = Emit(signals, "status")
            /\ UNCHANGED <<outcome, message>>
            /\ IF impl = "batch" /\ mode = "face"
               THEN /\ current_x' = CenterX(original_width, vertical_width)
                    /\ face_detected' = FALSE
                    /\ face_count' = 0
                    /\ UNCHANGED motion
               ELSE IF impl = "batch" /\ mode = "motion"
               THEN /\ scaled' = ScaledDims(original_width, original_height,
                                            vertical_width, vertical_height,
                                            scale_factor)
                    /\ update_interval' = UpdateInterval(fps)
                    /\ smoothed_x' = 0
                    /\ prev_gray' = 0
                    /\ UNCHANGED face
               ELSE UNCHANGED <<face, motion>>
    /\ UNCHANGED <<gui, normaliser, inputs, handles, pos, frame, geometry, running, success,
                   counters, window, hist>>

\* cv2.VideoWriter(...); if not out.isOpened(): return False.  The worker's
\* strategies initialise their tracker state after the sink is open
\* (gui_app.py lines 115-120, 210-213).
OpenSink ==
    /\ pc = "sink"
    /\ signals' = Emit(signals, "status")
    /\ \E ok \in BOOLEAN :
          IF ok
          THEN /\ out' = "open"
               /\ frame_count' = 0
               /\ pc' = "loop"
               /\ UNCHANGED <<success, message>>
               /\ IF impl = "gui" /\ mode = "face"
                  THEN /\ current_x' = CenterX(original_width, vertical_width)
                       /\ face_detected' = FALSE
                       /\ face_count' = 0
                       /\ UNCHANGED motion
                  ELSE IF impl = "gui" /\ mode = "motion"
                  THEN /\ prev_gray' = 0
                       /\ smoothed_x' = CenterX(original_width, vertical_width)
                       /\ UNCHANGED <<face, scaled, update_interval>>
                  ELSE UNCHANGED <<face, motion>>
          ELSE /\ success' = FALSE
               /\ message' = "CannotOpenSink"
               /\ pc' = "finish"
               /\ UNCHANGED <<out, frame_count, face, motion>>
    /\ UNCHANGED <<gui, normaliser, inputs, cap, pos, frame, geometry, running, warnings,
                   window, outcome, hist>>

(***************************************************************************)
(* The frame loop.                                                         *)
(***************************************************************************)
\* batch: while True; worker: while self.running and frame_count < total_frames
LoopCondition_ignoresStop ==
    impl = "batch" \/ frame_count < total_frames

LoopCondition ==
    impl = "batch" \/ (running /\ frame_count < total_frames)

\* the while condition is evaluated: a new iteration starts or the loop ends
LoopHead ==
    /\ pc = "loop"
    /\ pc' = IF LoopCondition THEN "read" ELSE "after"
    /\ hist' = IF LoopCondition THEN hist
               ELSE [hist EXCEPT !.loopEnd = IF running THEN "count" ELSE "cancel"]
    /\ UNCHANGED <<signals, gui, normaliser, inputs, handles, pos, frame, geometry,
                   running, success, message, counters, face, motion, window,
                   outcome>>

\* the position of the source after a successful cap.read(): the frame read
\* is consumed
PosAfterRead_peek(p) == p

PosAfterRead(p) == p + 1

\* ret, frame = cap.read(); if not ret: break
ReadFrame ==
    /\ pc = "read"
    /\ IF pos < total_frames
       THEN /\ pos' = PosAfterRead(pos)
            /\ frame' \in FrameChoices(impl, mode, original_width, scaled[1])
            /\ pc' = "process"
            /\ UNCHANGED hist
       ELSE /\ pc' = "after"
            /\ hist' = [hist EXCEPT !.loopEnd = "exhausted"]
            /\ UNCHANGED <<pos, frame>>
    /\ UNCHANGED <<signals, gui, normaliser, inputs, handles, geometry, running, success, message,
                   counters, face, motion, window, outcome>>

\* cap.read() raises.  batch: caught by _write_cropped_video (lines 406-414),
\* which releases the sink and returns False; worker: caught by run() (lines
\* 94-95), which emits the terminal event and releases nothing.
ReadRaises ==
    /\ pc = "read"
    /\ IF impl = "batch"
       THEN /\ out' = "released"
            /\ hist' = [hist EXCEPT !.outReleases = @ + 1]
            /\ success' = FALSE
            /\ message' = "Exception"
            /\ pc' = "finish"
            /\ UNCHANGED <<outcome, signals>>
       ELSE /\ message' = "Exception"
            /\ Report("Failed", "Exception")
            /\ signals' = EmitFinished(signals)
            /\ UNCHANGED <<out, hist, success>>
    /\ UNCHANGED <<gui, normaliser, inputs, cap, pos, frame, geometry, running, counters,
                   face, motion, window>>

\* frame_count after a frame: incremented after out.write(), left alone by
\* the continue of the degenerate-frame check and of the except branch
FrameCountAfter_always(fc, written) == fc + 1

FrameCountAfter(fc, written) == IF written THEN fc + 1 ELSE fc

\* warnings after a frame: one print / status event in the except branch
\* (batch lines 398-400, gui 178-180) and at the degenerate-frame check
WarningsAfter_silent(n, written) == n

WarningsAfter(n, written) == IF written THEN n ELSE n + 1

\* history of the face tracker over the frame being processed
FaceHist(decided) ==
    IF mode # "face" THEN hist
    ELSE IF decided /\ Len(frame.faces) > 0
    THEN LET t == FaceTargetX(frame.faces, original_width, vertical_width)
         IN  IF hist.holdN > 0 /\ hist.holdT = t
             THEN [hist EXCEPT !.holdN = @ + 1, !.emptyRun = 0]
             ELSE [hist EXCEPT !.holdT = t, !.holdN = 1,
                               !.holdX0 = current_x, !.emptyRun = 0]
    ELSE IF decided /\ face_detected
    THEN [hist EXCEPT !.holdT = -1, !.holdN = 0, !.emptyRun = @ + 1]
    ELSE [hist EXCEPT !.holdT = -1, !.holdN = 0, !.emptyRun = 0]

\* One iteration of the loop body on the frame just read: the strategy's
\* decision, the slice, the normalisation and out.write(); an exception is
\* caught at the frame, a warning is emitted and the loop continues.
ProcessFrame ==
    /\ pc = "process"
    /\ LET decided == frame.fault # "decide"
           \* face strategy
           nx  == IF impl = "batch"
                  THEN FaceNextX(current_x, face_detected, frame.faces,
                                 original_width, vertical_width)
                  ELSE GuiFaceNextX(current_x, face_detected, frame.faces,
                                    original_width, vertical_width)
           \* motion strategy of the batch tool
           due == RefreshDue(pos, update_interval)
           est == due /\ prev_gray # 0 /\ frame.flow # NoMotion
           sx  == IF est
                  THEN SmoothStep(smoothed_x,
                           MotionTargetX(frame.flow, vertical_width, scaled[1]))
                  ELSE smoothed_x
           mw  == CropWindow(sx, vertical_width, scaled[1])
           \* canvas[offset_y:offset_y+scaled_height, :] = cropped_frame
           \* raises when the slice is narrower than the canvas
           canvasError == /\ impl = "batch" /\ mode = "motion"
                          /\ scaled[2] < vertical_height
                          /\ mw[2] - mw[1] # vertical_width
           written == frame.fault = "none" /\ ~canvasError
           \* the worker's status and progress events of this iteration
           first == decided /\ mode = "face" /\ Len(frame.faces) > 0
                    /\ ~face_detected
           s1  == IF first THEN Emit(signals, "status") ELSE signals
           fc  == FrameCountAfter(frame_count, written)
       IN  /\ signals' = IF ~written THEN Emit(s1, "status")
                         ELSE IF ProgressDue(fc, ProgressEvery)
                         THEN EmitProgress(s1, fc) ELSE s1
           /\ IF ~decided
              THEN UNCHANGED <<face, motion, window>>
              ELSE IF mode = "face"
              THEN /\ current_x' = nx
                   /\ face_detected' = DetectedAfter(face_detected, frame.faces)
                   /\ face_count' = IF Len(frame.faces) > 0
                                    THEN face_count + 1 ELSE face_count
                   /\ window' = CropWindow(nx, vertical_width, original_width)
                   /\ UNCHANGED motion
              ELSE IF mode = "motion" /\ impl = "batch"
              THEN /\ smoothed_x' = sx
                   /\ prev_gray' = PrevGrayAfter(prev_gray, due, est, pos)
                   /\ window' = mw
                   /\ UNCHANGED <<face, scaled, update_interval>>
              ELSE IF mode = "motion"
              THEN /\ prev_gray' = pos
                   /\ window' = GuiMotionWindow(frame.flow, original_width,
                                                vertical_width)
                   /\ UNCHANGED <<face, scaled, update_interval, smoothed_x>>
              ELSE /\ window' = CenterWindow(original_width, vertical_width)
                   /\ UNCHANGED <<face, motion>>
           /\ frame_count' = fc
           /\ warnings' = WarningsAfter(warnings, written)
           /\ hist' = [FaceHist(decided) EXCEPT
                          !.failures = IF written THEN @ ELSE @ + 1]
    /\ pc' = "loop"
    /\ UNCHANGED <<gui, normaliser, inputs, handles, pos, frame, geometry, running, success,
                   message, outcome>>

\* the value the strategy returns after the loop, frame_count frames
\* written: return True
LoopResult_needsFrames(fc) == fc > 0

LoopResult(fc) == TRUE

\* after the loop: out.release(), and the strategy returns True
AfterLoop ==
    /\ pc = "after"
    /\ out' = "released"
    /\ hist' = [hist EXCEPT !.outReleases = @ + 1]
    /\ success' = LoopResult(frame_count)
    /\ signals' = IF mode = "face" THEN Emit(signals, "status") ELSE signals
    /\ pc' = "finish"
    /\ UNCHANGED <<gui, normaliser, inputs, cap, pos, frame, geometry, running, message,
                   counters, face, motion, window, outcome>>

\* the strategy has returned: cap.release() and the terminal report.
\* batch: return success.  worker: finished_signal(True) if success and
\* self.running, the cancel message if not self.running, else failure.
Finish ==
    /\ pc = "finish"
    /\ cap' = "released"
    /\ IF impl = "batch"
       THEN IF success THEN Report("Completed", "")
                       ELSE Report("Failed", message)
       ELSE IF success /\ running THEN Report("Completed", "")
       ELSE IF ~running THEN Report("Cancelled", "UserCancelled")
       ELSE Report("Failed", message)
    /\ signals' = EmitFinished(signals)
    /\ UNCHANGED <<gui, normaliser, inputs, out, pos, frame, geometry, running, success,
                   message, counters, face, motion, window, hist>>

\* CropWorker.stop(), called from the GUI thread by stop_cropping() while the
\* worker thread is running
Stop ==
    /\ impl = "gui"
    /\ pc \notin {"idle", "done"}
    /\ running
    /\ running' = FALSE
    /\ hist' = [hist EXCEPT !.stopAt = frame_count, !.stopPos = pos,
                             !.stopPc = pc]
    /\ UNCHANGED <<signals, gui, normaliser, inputs, pc, handles, pos, frame, geometry, success,
                   message, counters, face, motion, window, outcome>>

Next ==
    \/ StartJob
    \/ OpenSource
    \/ ComputeGeometry
    \/ SelectStrategy
    \/ SetupStrategy
    \/ OpenSink
    \/ LoopHead
    \/ ReadFrame
    \/ ReadRaises
    \/ ProcessFrame
    \/ AfterLoop
    \/ Finish
    \/ Stop

Spec == Init /\ [][Next]_vars

(***************************************************************************)
(* The normaliser on its own: a batch job inside its frame loop, whose     *)
(* crop function returns an arbitrary array; the array is normalised and   *)
(* handed to the sink, and the array handed to the sink is put through     *)
(* the normaliser a second time.                                           *)
(***************************************************************************)
NormInit ==
    /\ impl = "batch"
    /\ mode = "center"
    /\ \E g \in Geometries : original_width = g[1] /\ original_height = g[2]
    /\ fps = 2500
    /\ scale_factor = <<67, 100>>
    /\ total_frames = 1
    /\ pc = "process"
    /\ cap = "open"
    /\ out = "open"
    /\ pos = 1
    /\ frame = NoFrame
    /\ vertical_width = TargetWidth(original_height)
    /\ vertical_height = TargetHeight(original_height)
    /\ scaled = <<0, 0>>
    /\ update_interval = 1
    /\ running = TRUE
    /\ success = FALSE
    /\ message = ""
    /\ frame_count = 0
    /\ warnings = 0
    /\ current_x = 0
    /\ face_detected = FALSE
    /\ face_count = 0
    /\ smoothed_x = 0
    /\ prev_gray = 0
    /\ window = <<>>
    /\ outcome = NoOutcome
    /\ hist = NoHist
    /\ signals = NoSignals
    /\ norm_pc = "crop"
    /\ cropped_frame \in CropResults(vertical_width, vertical_height)
    /\ sink_frame = NoArray
    /\ sink_again = NoArray
    /\ start_btn = TRUE
    /\ stop_btn = FALSE
    /\ crop_worker = 0
    /\ workers = <<>>

\* lines 375-393: the frame is skipped with a warning, or normalised,
\* written and counted
NormalizeFrame ==
    /\ norm_pc = "crop"
    /\ sink_frame' = Normalize(cropped_frame, vertical_width, vertical_height)
    /\ IF sink_frame' = NoArray
       THEN /\ norm_pc' = "skipped"
            /\ warnings' = warnings + 1
            /\ UNCHANGED frame_count
       ELSE /\ norm_pc' = "written"
            /\ frame_count' = frame_count + 1
            /\ UNCHANGED warnings
    /\ UNCHANGED <<gui, inputs, pc, handles, pos, frame, geometry, running,
                   success, message, face, motion, window, outcome, hist,
                   signals, cropped_frame, sink_again>>

\* the written array is returned by the crop function of a later frame
NormalizeAgain ==
    /\ norm_pc = "written"
    /\ sink_again' = Normalize(sink_frame, vertical_width, vertical_height)
    /\ norm_pc' = "again"
    /\ UNCHANGED <<gui, inputs, pc, handles, pos, frame, geometry, running,
                   success, message, counters, face, motion, window, outcome,
                   hist, signals, cropped_frame, sink_frame>>

NormNext ==
    \/ NormalizeFrame
    \/ NormalizeAgain

SpecNorm == NormInit /\ [][NormNext]_vars

(***************************************************************************)
(* Jobs on long sources: centre jobs of both programs on sources long      *)
(* enough for two progress reports, with every pattern of per-frame        *)
(* failures.                                                               *)
(***************************************************************************)
LongInit ==
    /\ impl \in Impls
    /\ mode = "center"
    /\ original_width = 1920
    /\ original_height = 1080
    /\ fps = 2500
    /\ scale_factor = <<67, 100>>
    /\ total_frames = (IF impl = "gui" THEN LongGuiFrames ELSE LongBatchFrames)
    /\ pc = "idle"
    /\ cap = "unopened"
    /\ out = "none"
    /\ pos = 0
    /\ frame = NoFrame
    /\ vertical_width = 0
    /\ vertical_height = 0
    /\ scaled = <<0, 0>>
    /\ update_interval = 1
    /\ running = TRUE
    /\ success = FALSE
    /\ message = ""
    /\ frame_count = 0
    /\ warnings = 0
    /\ current_x = 0
    /\ face_detected = FALSE
    /\ face_count = 0
    /\ smoothed_x = 0
    /\ prev_gray = 0
    /\ window = <<>>
    /\ outcome = NoOutcome
    /\ hist = NoHist
    /\ signals = NoSignals
    /\ norm_pc = "off"
    /\ cropped_frame = NoArray
    /\ sink_frame = NoArray
    /\ sink_again = NoArray
    /\ start_btn = TRUE
    /\ stop_btn = FALSE
    /\ crop_worker = 0
    /\ workers = <<>>

SpecLong == LongInit /\ [][Next]_vars

(***************************************************************************)
(* Face jobs on a source whose frames all give the same detection result,  *)
(* so that target_x is held over the whole job.                            *)
(***************************************************************************)
HoldInit ==
    /\ impl \in Impls
    /\ mode = "face"
    /\ \E g \in {<<1920, 1080>>, <<1600, 900>>} :
          original_width = g[1] /\ original_height = g[2]
    /\ fps = 2500
    /\ scale_factor = <<67, 100>>
    /\ total_frames = HoldFrames
    /\ pc = "idle"
    /\ cap = "unopened"
    /\ out = "none"
    /\ pos = 0
    /\ frame = NoFrame
    /\ vertical_width = 0
    /\ vertical_height = 0
    /\ scaled = <<0, 0>>
    /\ update_interval = 1
    /\ running = TRUE
    /\ success = FALSE
    /\ message = ""
    /\ frame_count = 0
    /\ warnings = 0
    /\ current_x = 0
    /\ face_detected = FALSE
    /\ face_count = 0
    /\ smoothed_x = 0
    /\ prev_gray = 0
    /\ window = <<>>
    /\ outcome = NoOutcome
    /\ hist = NoHist
    /\ signals = NoSignals
    /\ norm_pc = "off"
    /\ cropped_frame = NoArray
    /\ sink_frame = NoArray
    /\ sink_again = NoArray
    /\ start_btn = TRUE
    /\ stop_btn = FALSE
    /\ crop_worker = 0
    /\ workers = <<>>

\* cap.read() on such a source: the frame read is processed without a
\* fault and carries the detection result of the frame before it
HeldRead ==
    /\ ReadFrame
    /\ pc' = "process" =>
          /\ frame'.fault = "none"
          /\ Len(frame'.faces) > 0
          /\ pos > 0 => frame'.faces = frame.faces

HoldNext ==
    \/ StartJob
    \/ OpenSource
    \/ ComputeGeometry
    \/ SelectStrategy
    \/ SetupStrategy
    \/ OpenSink
    \/ LoopHead
    \/ HeldRead
    \/ ReadRaises
    \/ ProcessFrame
    \/ AfterLoop
    \/ Finish
    \/ Stop

SpecHold == HoldInit /\ [][HoldNext]_vars

(***************************************************************************)
(* The job under a scheduler that keeps running the thread that executes   *)
(* it: the calling thread of crop_to_vertical() in the batch tool, the     *)
(* QThread of the worker once start() was called.  stop() is a choice of   *)
(* the user and is under no fairness condition.                            *)
(***************************************************************************)
WorkerStep ==
    \/ OpenSource
    \/ ComputeGeometry
    \/ SelectStrategy
    \/ SetupStrategy
    \/ OpenSink
    \/ LoopHead
    \/ ReadFrame
    \/ ReadRaises
    \/ ProcessFrame
    \/ AfterLoop
    \/ Finish

\* the jobs of Init on a source wide enough and on one too narrow, of at
\* most MaxFairFrames frames
FairInit ==
    /\ Init
    /\ original_width \in {1920, 500}
    /\ total_frames <= MaxFairFrames

SpecFair == FairInit /\ [][Next]_vars /\ WF_vars(WorkerStep)

(***************************************************************************)
(* The main window (gui_app.py lines 681-728) and the worker threads it    *)
(* creates.  Of a worker the window sees isRunning() (true from start()    *)
(* until run() returns) and its finished_signal, which is delivered to     *)
(* on_finished by the event loop of the GUI thread some time after the     *)
(* worker emitted it; `running` is the worker's cancel flag.               *)
(***************************************************************************)
NewWorker == [isRunning |-> TRUE, running |-> TRUE, posted |-> FALSE]

\* run() has emitted its completion event and returned
Returned(w) == [w EXCEPT !.isRunning = FALSE, !.posted = TRUE]

\* a click on the start button: a new CropWorker replaces self.crop_worker
\* and is started (an invalid input path returns before that)
start_cropping ==
    /\ start_btn
    /\ Len(workers) < MaxWorkers
    /\ \E valid \in BOOLEAN :
          IF valid
          THEN /\ workers' = Append(workers, NewWorker)
               /\ crop_worker' = Len(workers) + 1
               /\ start_btn' = FALSE
               /\ stop_btn' = TRUE
          ELSE UNCHANGED gui
    /\ UNCHANGED job

\* a click on the stop button: stop(), wait(2000), and the buttons are
\* reset whether the worker returned within the wait or not
stop_cropping ==
    /\ stop_btn
    /\ IF crop_worker # 0 /\ workers[crop_worker].isRunning
       THEN /\ \E returned \in BOOLEAN :
                 workers' = [workers EXCEPT ![crop_worker] =
                     IF returned THEN Returned([@ EXCEPT !.running = FALSE])
                     ELSE [@ EXCEPT !.running = FALSE]]
            /\ start_btn' = TRUE
            /\ stop_btn' = FALSE
            /\ UNCHANGED crop_worker
       ELSE UNCHANGED gui
    /\ UNCHANGED job

\* a worker's run() comes to its end: completed, failed or cancelled
WorkerReturns ==
    /\ \E i \in 1..Len(workers) :
          /\ workers[i].isRunning
          /\ workers' = [workers EXCEPT ![i] = Returned(@)]
    /\ UNCHANGED <<start_btn, stop_btn, crop_worker, job>>

\* the event loop delivers a worker's finished_signal
on_finished ==
    /\ \E i \in 1..Len(workers) :
          /\ workers[i].posted
          /\ workers' = [workers EXCEPT ![i].posted = FALSE]
    /\ start_btn' = TRUE
    /\ stop_btn' = FALSE
    /\ UNCHANGED <<crop_worker, job>>

GuiNext ==
    \/ start_cropping
    \/ stop_cropping
    \/ WorkerReturns
    \/ on_finished

GuiInit ==
    /\ Init
    /\ impl = "gui"
    /\ mode = "center"
    /\ original_width = 1920
    /\ total_frames = 0

SpecGui == GuiInit /\ [][GuiNext]_vars

(***************************************************************************)
(* The orchestrator state of section 4.6 of the specification, read off    *)
(* the position of the job: Opening until the sink is open, Running from   *)
(* the first evaluation of the loop condition until the terminal report.   *)
(***************************************************************************)
Terminal == {"Completed", "Failed", "Cancelled"}

JobState ==
    CASE pc = "idle" -> "Idle"
      [] pc \in {"open", "geometry", "select", "setup", "sink"} -> "Opening"
      [] pc \in {"loop", "read", "process", "after"} -> "Running"
      [] pc = "finish" -> IF out = "none" THEN "Opening" ELSE "Running"
      [] pc = "done" -> outcome.kind

LoopPcs == {"loop", "read", "process", "after"}

(***************************************************************************)
(* Properties.                                                             *)
(***************************************************************************)

\* C1: in the face and centre strategies the crop window of every frame
\* lies inside the source frame and is exactly the target width wide:
\* 0 <= xStart, xEnd <= originalWidth, xEnd - xStart = targetWidth.
C1_WindowInFrame ==
    (mode \in {"face", "center"} /\ window # <<>>) =>
        /\ 0 <= window[1]
        /\ window[2] <= original_width
        /\ window[2] - window[1] = vertical_width

\* a face job whose tracker has moved the window away from the centre
C1_Witness ==
    /\ mode = "face"
    /\ face_detected
    /\ window # <<>>
    /\ window[1] # (original_width - vertical_width) \div 2

\* C2: targetHeight = originalHeight and targetWidth = floor(9 *
\* targetHeight / 16); 1920x1080 gives 607x1080 and the centre window
\* [656, 1263).
C2_TargetGeometry ==
    (cap # "unopened" /\ pc # "geometry") =>
        /\ vertical_height = original_height
        /\ 16 * vertical_width <= 9 * vertical_height
        /\ 9 * vertical_height < 16 * (vertical_width + 1)
        /\ (original_width = 1920 /\ original_height = 1080) =>
              /\ vertical_width = 607
              /\ vertical_height = 1080
              /\ (mode = "center" /\ window # <<>>) => window = <<656, 1263>>

\* a 1920x1080 centre job that has cropped a frame
C2_Witness ==
    /\ original_width = 1920
    /\ original_height = 1080
    /\ mode = "center"
    /\ window = <<656, 1263>>

\* C3: a source narrower than the target width (500x1000, target 562) makes
\* the job fail with the incompatible-geometry reason; no frame is read and
\* no sink is opened, in the batch tool and in the worker.
C3_NarrowSourceFails ==
    (16 * (original_width + 1) <= 9 * original_height) =>
        /\ pos = 0
        /\ out = "none"
        /\ pc \notin {"select", "setup", "sink", "loop", "read", "process",
                      "after", "finish"}
        /\ (pc = "done" /\ cap # "unopened") =>
              outcome = [kind |-> "Failed", reason |-> "IncompatibleGeometry"]
        /\ (original_width = 500 /\ original_height = 1000 /\ pc = "done"
            /\ cap # "unopened") => vertical_width = 562

\* the 500x1000 source has been rejected
C3_Witness ==
    /\ original_width = 500
    /\ original_height = 1000
    /\ outcome = [kind |-> "Failed", reason |-> "IncompatibleGeometry"]
    /\ cap = "released"

\* C4: a frame whose processing raises is neither written nor counted, gets
\* exactly one warning, and the loop goes on: every frame read is either
\* counted or failed, and a Completed job has read all N frames and counted
\* N - |F| of them with |F| warnings.
C4_FailureContained ==
    /\ warnings = hist.failures
    /\ frame_count + hist.failures = (IF pc = "process" THEN pos - 1 ELSE pos)
    /\ (pc = "done" /\ outcome.kind = "Completed") =>
          /\ pos = total_frames
          /\ frame_count = total_frames - hist.failures
          /\ warnings = hist.failures

\* a completed job in which failing frames were followed by written ones
C4_Witness ==
    /\ pc = "done"
    /\ outcome.kind = "Completed"
    /\ hist.failures >= 2
    /\ frame_count >= 1
    /\ frame.fault = "none"

C6_HandlesReleased ==
    pc = "done" => (cap # "open" /\ out # "open")

\* C7: the job moves only along Idle -> Opening -> Running -> terminal (or
\* Opening -> Failed); Running is entered with source and sink open and the
\* geometry validated; a terminal state is never left and no frame is read
\* or written after it.
C7_LifecycleStep ==
    /\ \/ JobState' = JobState
       \/ <<JobState, JobState'>> \in
             {<<"Idle", "Opening">>, <<"Opening", "Running">>,
              <<"Opening", "Failed">>, <<"Running", "Completed">>,
              <<"Running", "Failed">>, <<"Running", "Cancelled">>}
    /\ (JobState' = "Running" /\ JobState # "Running") =>
          /\ cap' = "open"
          /\ out' = "open"
          /\ original_width >= vertical_width'
          /\ pos' = 0
    /\ JobState \in Terminal => (pos' = pos /\ frame_count' = frame_count)

C7_Lifecycle == [][C7_LifecycleStep]_vars

\* C8: while target_x is held at T over n consecutive detected frames,
\* |currentX_n - T| = 0.9^n * |currentX_0 - T|, that is
\* 10^n * |currentX_n - T| = 9^n * |currentX_0 - T|.
C8_GeometricDecay ==
    hist.holdN > 0 =>
        Pow(10, hist.holdN) * Abs(current_x - hist.holdT)
            = Pow(9, hist.holdN) * Abs(hist.holdX0 - hist.holdT)

\* C9: once a face has been detected, a frame with an empty detection
\* result leaves current_x and the crop window as the previous frame left
\* them.
C9_FaceHold ==
    [][(pc = "process" /\ mode = "face" /\ face_detected /\ frame.faces = <<>>)
          => (current_x' = current_x /\ window' = window)]_vars

\* three consecutive no-detection frames after a face, away from the centre
C9_Witness ==
    /\ mode = "face"
    /\ hist.emptyRun >= 3
    /\ current_x # (original_width - vertical_width) \div 2
    /\ window = <<current_x, current_x + vertical_width>>

\* C10: smoothed_x changes on a frame only if the strategy's frame counter
\* (the source position after the frame was read) is a multiple of
\* update_interval and the frame's significant-motion mask is non-empty.
C10_MotionGating ==
    [][(pc = "process" /\ smoothed_x' # smoothed_x)
          => (pos % update_interval = 0 /\ frame.flow # NoMotion)]_vars

\* a batch motion job with a two-frame interval whose smoothed_x has moved
C10_Witness ==
    /\ impl = "batch"
    /\ mode = "motion"
    /\ update_interval = 2
    /\ smoothed_x > 0
    /\ pos = 4


(***************************************************************************)
(* C11: every frame handed to the sink has exactly the target width and    *)
(* height, 8-bit depth and 3 channels, whatever non-empty array the crop   *)
(* function returned (any size, any depth, 1, 3 or 4 channels); an array   *)
(* with zero width or zero height is the only one rejected, and it is      *)
(* skipped, not written.                                                   *)
(***************************************************************************)
Degenerate(a) == a.rows = 0 \/ a.cols = 0

SinkFormat(a) ==
    /\ a.rows = vertical_height
    /\ a.cols = vertical_width
    /\ a.dtype = "uint8"
    /\ a.channels = 3

C11_SinkFormat ==
    /\ norm_pc = "skipped" => Degenerate(cropped_frame)
    /\ norm_pc \in {"written", "again"} =>
          ~Degenerate(cropped_frame) /\ SinkFormat(sink_frame)

(***************************************************************************)
(* C12: the normaliser is idempotent: putting the array it handed to the   *)
(* sink through it again returns that array, and an array that already     *)
(* has the target width and height, 3 channels and 8-bit depth is handed   *)
(* to the sink as it is, no operation applied to its pixels.               *)
(***************************************************************************)
C12_Idempotent ==
    /\ norm_pc = "again" => sink_again = sink_frame
    /\ (norm_pc \in {"written", "again"} /\ SinkFormat(cropped_frame)) =>
          sink_frame = cropped_frame

\* an array that needed the resize, the conversion to 8 bits and the
\* promotion to 3 channels has been through the normaliser twice
C12_Witness ==
    /\ norm_pc = "again"
    /\ sink_frame.data = <<"resize", "astype", "gray2bgr">>
    /\ sink_again = sink_frame

(***************************************************************************)
(* C13: the centre strategy is deterministic and stateless: on every frame *)
(* it slices, in the batch tool and in the worker, the window starts at    *)
(* (originalWidth - targetWidth) div 2 and ends targetWidth further, a     *)
(* function of the geometry alone, and no tracker state is touched.        *)
(***************************************************************************)
C13_CenterStep ==
    (mode = "center" /\ pc = "process" /\ pc' = "loop"
        /\ frame.fault # "decide") =>
        /\ window' = <<(original_width - vertical_width) \div 2,
                       (original_width - vertical_width) \div 2 + vertical_width>>
        /\ UNCHANGED <<face, motion>>

C13_CenterStateless == [][C13_CenterStep]_vars

\* a centre job of either program that has sliced several frames of a
\* source wider than the output
C13_Witness ==
    /\ mode = "center"
    /\ pos >= 3
    /\ frame_count >= 2
    /\ original_width > vertical_width
    /\ window = <<(original_width - vertical_width) \div 2,
                  (original_width - vertical_width) \div 2 + vertical_width>>

(***************************************************************************)
(* C14: each run of the worker emits exactly one completion event, on      *)
(* every path (completion, failure, cancellation, unexpected exception):   *)
(* none while the run is under way, one once it has ended, and no          *)
(* progress or status event of the run after it.                           *)
(***************************************************************************)
C14_OneCompletionEvent ==
    impl = "gui" =>
        /\ signals.finished = (IF pc = "done" THEN 1 ELSE 0)
        /\ signals.late = 0

\* a run that ended by an exception escaping the frame loop, after status
\* events of the set-up and of a skipped frame
C14_Witness ==
    /\ impl = "gui"
    /\ pc = "done"
    /\ outcome = [kind |-> "Failed", reason |-> "Exception"]
    /\ warnings >= 1
    /\ signals.status >= 5
    /\ signals.finished = 1

(***************************************************************************)
(* C15: cancellation is a distinct terminal outcome: the completion event  *)
(* of the worker is the cancel event exactly for the jobs that ended       *)
(* because the cancel signal was observed by the frame loop, so that the   *)
(* event of such a job differs from the event of every job that ran to     *)
(* the end of its source and of every job that failed.                     *)
(***************************************************************************)
C15_CancelDistinct ==
    (impl = "gui" /\ pc = "done") =>
        (outcome.kind = "Cancelled" <=> hist.loopEnd = "cancel")

(***************************************************************************)
(* C16: when the source cannot be opened or the sink cannot be opened the  *)
(* job ends Failed directly from Opening: no frame has been read, none     *)
(* written, and the terminal report is the failure, never success.         *)
(***************************************************************************)
C16_OpenFailureFails ==
    message \in {"CannotOpenSource", "CannotOpenSink"} =>
        /\ pos = 0
        /\ frame_count = 0
        /\ JobState \in {"Opening", "Failed"}

(***************************************************************************)
(* C17: stream exhaustion is the normal Running -> Completed transition:   *)
(* in a job that is not cancelled the frame loop ends exactly when the     *)
(* source has no further frame, every frame the source yielded has been    *)
(* written or skipped with a warning, and the job reports Completed, also  *)
(* when fewer frames (possibly none) were written than the source held.    *)
(***************************************************************************)
C17_ExhaustionCompletes ==
    (running /\ hist.loopEnd # "") =>
        /\ hist.loopEnd \in {"exhausted", "count"}
        /\ pos = total_frames
        /\ frame_count + hist.failures = total_frames
        /\ warnings = hist.failures
        /\ pc \in {"after", "finish", "done"}
        /\ pc = "done" => outcome.kind = "Completed"

\* a job that skipped every frame of its source and completed
C17_Witness ==
    /\ running
    /\ pc = "done"
    /\ outcome.kind = "Completed"
    /\ total_frames >= 2
    /\ frame_count = 0
    /\ warnings = total_frames

(***************************************************************************)
(* C18: a detector failure on a frame is caught and treated as "no face    *)
(* this frame": the frame is handled as a frame with an empty detection    *)
(* result is, i.e. currentX is held (the centre if no face was ever        *)
(* detected), the frame is sliced with that window and forwarded to the    *)
(* sink, and the job is not aborted.                                       *)
(***************************************************************************)
DetectorFailureStep ==
    /\ mode = "face"
    /\ pc = "process"
    /\ pc' = "loop"
    /\ frame.fault = "decide"

EmptyDetectionX ==
    IF face_detected THEN current_x
    ELSE (original_width - vertical_width) \div 2

C18_AsNoFaceStep ==
    DetectorFailureStep =>
        /\ current_x' = EmptyDetectionX
        /\ face_detected' = face_detected
        /\ window' = CropWindow(EmptyDetectionX, vertical_width, original_width)
        /\ frame_count' = frame_count + 1
        /\ warnings' = warnings
        /\ outcome' = outcome

C18_DetectorFailureAsNoFace == [][C18_AsNoFaceStep]_vars

\* C18 as the code has it: the failure is caught at the frame and the frame
\* is skipped: no window is taken for it, it is not written and not counted,
\* one warning is emitted, the tracker state is left as it was, which is the
\* state an empty detection result leaves, and the job goes on.
C18_SkippedStep ==
    DetectorFailureStep =>
        /\ current_x' = EmptyDetectionX
        /\ face_detected' = face_detected
        /\ face_count' = face_count
        /\ window' = window
        /\ frame_count' = frame_count
        /\ warnings' = warnings + 1
        /\ outcome' = outcome

C18_DetectorFailureSkipped == [][C18_SkippedStep]_vars

\* the detector failed on a frame after a face had moved the window; the
\* frame was skipped and the job went on
C18_Witness ==
    /\ mode = "face"
    /\ pc = "loop"
    /\ frame.fault = "decide"
    /\ warnings >= 1
    /\ face_detected
    /\ frame_count >= 1
    /\ current_x # (original_width - vertical_width) \div 2

(***************************************************************************)
(* C19: the face tracker starts a job with currentX at the centre          *)
(* (originalWidth - targetWidth) div 2 and everDetected false, and         *)
(* everDetected is monotonic: a frame with a non-empty detection result    *)
(* makes it true, no other frame changes it, and it is never reset.        *)
(***************************************************************************)
C19_TrackerStep ==
    mode = "face" =>
        /\ face_detected => face_detected'
        /\ (pc = "sink" /\ pc' = "loop") =>
              /\ current_x' = (original_width - vertical_width) \div 2
              /\ ~face_detected'
        /\ (pc = "process" /\ pc' = "loop") =>
              face_detected' = (face_detected \/
                                (frame.fault # "decide" /\ Len(frame.faces) > 0))

C19_TrackerStartMonotonic == [][C19_TrackerStep]_vars

\* everDetected has stayed true over two frames without a face
C19_Witness ==
    /\ mode = "face"
    /\ pc = "loop"
    /\ face_detected
    /\ frame.faces = <<>>
    /\ hist.emptyRun >= 2

(***************************************************************************)
(* C20: centre fallback: on every frame up to the first frame with a       *)
(* non-empty detection result the window of the face strategy is the       *)
(* centre window, so that a face job in whose source no face is ever       *)
(* detected crops every frame as a centre job does.                        *)
(***************************************************************************)
C20_CenterFallback ==
    (mode = "face" /\ ~face_detected /\ window # <<>>) =>
        window = <<(original_width - vertical_width) \div 2,
                   (original_width - vertical_width) \div 2 + vertical_width>>

\* a face job on a source wider than the output completed without a face
C20_Witness ==
    /\ mode = "face"
    /\ pc = "done"
    /\ outcome.kind = "Completed"
    /\ ~face_detected
    /\ frame_count >= 3
    /\ original_width > vertical_width
    /\ window # <<>>

(***************************************************************************)
(* C21: on a frame with a non-empty detection set the face strategy        *)
(* tracks the rectangle of maximal area, the first in detector order among *)
(* equal areas, with faceCenterX = rectX + rectWidth/2 + rightOffset and   *)
(* targetX = clamp(faceCenterX - targetWidth/2, 0, originalWidth -         *)
(* targetWidth), the halves being the integer halves of pixel arithmetic,  *)
(* so that targetX lies in [0, originalWidth - targetWidth]; currentX      *)
(* moves towards that targetX.                                             *)
(***************************************************************************)
C21_TracksLargestStep ==
    (mode = "face" /\ pc = "process" /\ pc' = "loop"
        /\ frame.fault # "decide" /\ Len(frame.faces) > 0) =>
        \E i \in 1..Len(frame.faces) :
            LET r == frame.faces[i]
                faceCenterX == r[1] + r[3] \div 2 + RightOffset
                lo == 0
                hi == original_width - vertical_width
                t  == faceCenterX - vertical_width \div 2
                targetX == IF t < lo THEN lo ELSE IF t > hi THEN hi ELSE t
            IN  /\ \A m \in 1..Len(frame.faces) :
                      frame.faces[m][3] * frame.faces[m][4] <= r[3] * r[4]
                /\ \A m \in 1..(i - 1) :
                      frame.faces[m][3] * frame.faces[m][4] < r[3] * r[4]
                /\ hist'.holdT = targetX
                /\ 0 <= hist'.holdT
                /\ hist'.holdT <= original_width - vertical_width
                /\ current_x' = SmoothStep(current_x, targetX)

C22_MotionWindow ==
    (impl = "batch" /\ mode = "motion" /\ pc \in LoopPcs
        /\ 0 < scale_factor[1] /\ scale_factor[1] <= scale_factor[2]
        /\ original_width >= vertical_width) =>
        /\ 0 <= smoothed_x
        /\ smoothed_x <= scaled[1] - vertical_width
        /\ window # <<>> =>
              /\ 0 <= window[1]
              /\ window[2] <= scaled[1]
              /\ window[2] - window[1] = vertical_width

(***************************************************************************)
(* C23: in the motion strategy previousGrayFrame is replaced only on       *)
(* frames where the update interval fires; on each such frame the strategy *)
(* gets through, it is replaced by that frame's luminance image, whether   *)
(* or not a flow was estimated or motion was found; on every other frame,  *)
(* and between frames, it is left unchanged.                               *)
(***************************************************************************)
C23_PrevGrayStep ==
    (impl = "batch" /\ mode = "motion" /\ pc \in LoopPcs) =>
        /\ prev_gray' # prev_gray =>
              /\ pc = "process"
              /\ pos % update_interval = 0
              /\ prev_gray' = pos
        /\ (pc = "process" /\ pc' = "loop" /\ frame.fault # "decide"
               /\ pos % update_interval = 0) =>
              prev_gray' = pos

C23_PrevGrayOnInterval == [][C23_PrevGrayStep]_vars

\* with an interval of 2 frames, frame 2 has replaced previousGrayFrame
\* though no flow could be estimated on it, and frame 3 has left it alone
C23_Witness ==
    /\ impl = "batch"
    /\ mode = "motion"
    /\ update_interval = 2
    /\ pc = "loop"
    /\ pos = 3
    /\ frame.fault # "decide"
    /\ prev_gray = 2

(***************************************************************************)
(* C24: the motion update interval is round(fps * updateIntervalSeconds)   *)
(* with a minimum of 1, for every fps and every updateIntervalSeconds > 0, *)
(* and it is never 0.                                                      *)
(***************************************************************************)
\* fps * updateIntervalSeconds rounded to the nearest integer, in thousandths
RoundedInterval == (fps * UpdateIntervalTenths + 500) \div 1000

C24_RoundedInterval ==
    (impl = "batch" /\ mode = "motion" /\ pc \in LoopPcs) =>
        /\ update_interval >= 1
        /\ update_interval = (IF RoundedInterval >= 1 THEN RoundedInterval ELSE 1)

(***************************************************************************)
(* C25: after the scale computation of the motion strategy, corrective     *)
(* pass included, the height of the scaled frame never exceeds             *)
(* targetHeight, for every source geometry and every downscale factor in   *)
(* (0, 1]; the branch that truncates the cropped frame to its first        *)
(* targetHeight rows (scaled_height > vertical_height) is never taken.     *)
(***************************************************************************)
C25_ScaledHeightFits ==
    (impl = "batch" /\ mode = "motion" /\ pc \in LoopPcs
        /\ 0 < scale_factor[1] /\ scale_factor[1] <= scale_factor[2]) =>
        scaled[2] <= vertical_height

\* the first pass gave a frame higher than the output (about 716 rows for
\* 480) and the corrective pass has brought it to the output height
C25_Witness ==
    /\ impl = "batch"
    /\ mode = "motion"
    /\ pc = "loop"
    /\ pos >= 1
    /\ scale_factor = <<67, 100>>
    /\ (original_height * vertical_width * 100) \div (original_width * 67)
          > vertical_height
    /\ scaled = <<original_width, vertical_height>>

(***************************************************************************)
(* C26: a progress event is emitted at a fixed cadence of K processed      *)
(* frames, K = 10 in the worker and K = 100 in the batch tool: one is      *)
(* emitted exactly when the count of processed frames reaches a positive   *)
(* multiple of K, a skipped frame emits none, and the frame counts carried *)
(* by the successive progress events of a job are strictly increasing.     *)
(***************************************************************************)
C26_ProgressStep ==
    LET K == IF impl = "gui" THEN 10 ELSE 100
        emitted == signals'.progress = signals.progress + 1
        counted == frame_count' = frame_count + 1
    IN  /\ emitted \/ signals'.progress = signals.progress
        /\ emitted <=> (counted /\ frame_count' > 0 /\ frame_count' % K = 0)
        /\ emitted => /\ signals'.lastProgress = frame_count'
                      /\ signals'.lastProgress > signals.lastProgress
        /\ ~emitted => signals'.lastProgress = signals.lastProgress

C26_ProgressCadence == [][C26_ProgressStep]_vars

\* a worker job with skipped frames has emitted its second progress event
C26_Witness ==
    /\ impl = "gui"
    /\ pc = "loop"
    /\ warnings >= 1
    /\ frame_count = 20
    /\ signals.progress = 2
    /\ signals.lastProgress = 20

(***************************************************************************)
(* C27: the motion mode of the GUI worker computes the optical flow and    *)
(* discards it: on every frame, whatever the flow, its crop window is the  *)
(* window of the centre strategy, from (originalWidth - targetWidth) div 2 *)
(* to targetWidth further.                                                 *)
(***************************************************************************)
C27_GuiMotionStep ==
    (impl = "gui" /\ mode = "motion" /\ pc = "process" /\ pc' = "loop"
        /\ frame.fault # "decide") =>
        /\ window' = <<(original_width - vertical_width) \div 2,
                       (original_width - vertical_width) \div 2 + vertical_width>>
        /\ smoothed_x' = smoothed_x

C27_GuiMotionIsCentre == [][C27_GuiMotionStep]_vars

\* a frame on which the flow against the previous frame showed motion near
\* the right edge has been sliced at the centre
C27_Witness ==
    /\ impl = "gui"
    /\ mode = "motion"
    /\ pc = "loop"
    /\ pos >= 2
    /\ prev_gray = pos
    /\ frame.flow = original_width - 1
    /\ frame.fault = "none"
    /\ original_width > vertical_width
    /\ window = <<(original_width - vertical_width) \div 2,
                  (original_width - vertical_width) \div 2 + vertical_width>>

(***************************************************************************)
(* C28: for every finite source and every pattern of per-frame failures a  *)
(* started job eventually reaches a terminal state: every iteration of the *)
(* frame loop consumes one frame of the source, whether the frame is then  *)
(* written or skipped, and in the GUI worker a stop() request is followed  *)
(* by the terminal completion event after at most the iteration that was   *)
(* in progress when it was made.                                           *)
(***************************************************************************)
\* an iteration that got a frame moved the source on by one frame, and the
\* processing of the frame, written or skipped, does not move it back
C28_ConsumeStep ==
    /\ (pc = "read" /\ pc' = "process") => pos' = pos + 1
    /\ (pc = "process" /\ pc' = "loop") => pos' = pos

\* after stop() no frame is read beyond that of the iteration in progress
C28_StopBound ==
    (impl = "gui" /\ ~running) =>
        pos <= hist.stopPos + (IF hist.stopPc = "read" THEN 1 ELSE 0)

C28_Terminates ==
    /\ [][C28_ConsumeStep]_vars
    /\ []C28_StopBound
    /\ (pc # "idle") ~> (pc = "done" /\ outcome.kind \in Terminal)
    /\ (impl = "gui" /\ ~running) ~> (pc = "done" /\ signals.finished = 1)

\* a worker job with a skipped frame, stopped in the middle of an iteration
\* with frames of the source left, has emitted its completion event
C28_Witness ==
    /\ impl = "gui"
    /\ pc = "done"
    /\ signals.finished = 1
    /\ hist.failures > 0
    /\ hist.stopPc = "process"
    /\ pos = hist.stopPos
    /\ pos < total_frames

(***************************************************************************)
(* C29: in the GUI at most one worker is executing a job at any time, and  *)
(* the start control is enabled only when no worker started earlier is     *)
(* still running, for every interleaving of start_cropping, stop_cropping  *)
(* (its 2-second wait may expire before the worker stops) and the          *)
(* completion events of the workers.                                       *)
(***************************************************************************)
RunningWorkers == {i \in 1..Len(workers) : workers[i].isRunning}

C29_OneWorker ==
    /\ Cardinality(RunningWorkers) <= 1
    /\ start_btn => RunningWorkers = {}

(***************************************************************************)
(* C30: the GUI worker reports the cancelled outcome only for a job whose  *)
(* frame loop was ended by the cancel signal; a job whose sink failed to   *)
(* open, or whose frames had all been processed when stop() was called, is *)
(* never reported as cancelled, for every interleaving of stop() with      *)
(* run().                                                                  *)
(***************************************************************************)
C30_CancelledOnlyByLoop ==
    (impl = "gui" /\ outcome.kind = "Cancelled") => hist.loopEnd = "cancel"

(***************************************************************************)
(* C31: the face tracking of the GUI worker and that of the batch tool are *)
(* equivalent: for the same geometry, face parameters and sequence of      *)
(* detection results (frames without a detection before any face was seen  *)
(* included) both produce the same currentX and the same crop window on    *)
(* every frame.  Both start from the centre with no face seen, and from    *)
(* equal tracker states the update of either program yields the state and  *)
(* the window that the update of the other yields.                         *)
(***************************************************************************)
C31_SameStart ==
    (mode = "face" /\ pc = "loop" /\ pos = 0) =>
        /\ current_x = (original_width - vertical_width) \div 2
        /\ ~face_detected

C31_SameStep ==
    (mode = "face" /\ pc = "process" /\ pc' = "loop" /\ frame.fault # "decide") =>
        /\ current_x' = FaceNextX(current_x, face_detected, frame.faces,
                                  original_width, vertical_width)
        /\ current_x' = GuiFaceNextX(current_x, face_detected, frame.faces,
                                     original_width, vertical_width)
        /\ face_detected' = (face_detected \/ Len(frame.faces) > 0)
        /\ window' = CropWindow(current_x', vertical_width, original_width)

C31_FaceEquivalent == []C31_SameStart /\ [][C31_SameStep]_vars

\* the worker has processed a frame without a detection before any face was
\* seen and then a frame with a face, and has left the centre
C31_Witness ==
    /\ impl = "gui"
    /\ mode = "face"
    /\ pc = "loop"
    /\ pos = 2
    /\ hist.failures = 0
    /\ face_count = 1
    /\ Len(frame.faces) > 0
    /\ current_x # (original_width - vertical_width) \div 2
    /\ window = <<current_x, current_x + vertical_width>>

(***************************************************************************)
(* C32: face smoothing as implemented (currentX truncated to an integer    *)
(* after every update) never overshoots and never diverges: while targetX  *)
(* is held at T over consecutive detected frames, |currentX - T| does not  *)
(* increase, currentX stays on the same side of T, and currentX eventually *)
(* equals T.  The update is a function of currentX and T alone, so under a *)
(* held T currentX reaches T only if no value other than T is left         *)
(* unchanged by the update.                                                *)
(***************************************************************************)
C32_HeldStep ==
    LET T == FaceTargetX(frame.faces, original_width, vertical_width)
    IN  (mode = "face" /\ pc = "process" /\ pc' = "loop"
            /\ frame.fault # "decide" /\ Len(frame.faces) > 0) =>
            /\ Abs(current_x' - T) <= Abs(current_x - T)
            /\ current_x >= T => current_x' >= T
            /\ current_x <= T => current_x' <= T
            /\ current_x # T => current_x' # current_x

C32_TruncatedSmoothingConverges == [][C32_HeldStep]_vars

(***************************************************************************)
(* C33: in the motion strategy of the batch tool smoothedX starts at 0,    *)
(* the left edge of the scaled frame, and the first refresh frame only     *)
(* stores previousGrayFrame without estimating a flow, so that smoothedX   *)
(* is 0 and the crop window is [0, targetWidth) on every frame before the  *)
(* second refresh frame.  Frame by frame: the strategy starts with         *)
(* smoothedX = 0 and no previousGrayFrame; a frame that is not a refresh   *)
(* frame, or that finds no previousGrayFrame, leaves smoothedX alone and   *)
(* stores previousGrayFrame if it is a refresh frame; and a frame sliced   *)
(* with smoothedX = 0 is sliced at [0, targetWidth).                       *)
(***************************************************************************)
C33_StartsLeft ==
    (impl = "batch" /\ mode = "motion" /\ pc = "loop" /\ pos = 0) =>
        (smoothed_x = 0 /\ prev_gray = 0)

C33_FirstRefreshStep ==
    (impl = "batch" /\ mode = "motion" /\ pc = "process" /\ pc' = "loop"
        /\ frame.fault # "decide") =>
        /\ (prev_gray = 0 \/ pos % update_interval # 0) =>
              smoothed_x' = smoothed_x
        /\ (prev_gray = 0 /\ pos % update_interval = 0) => prev_gray' = pos
        /\ smoothed_x' = 0 => window' = <<0, vertical_width>>

C33_LeftUntilSecondRefresh == []C33_StartsLeft /\ [][C33_FirstRefreshStep]_vars

=============================================================================
